---- MODULE Spec2Model ----
(***************************************************************************)
(* Asteroid Composition Analysis API (backend/main.py).                    *)
(*                                                                         *)
(* The streaming relay (generate_streaming_response and                    *)
(* _process_stream_chunk) and the /analyze endpoint (analyze_composition). *)
(*                                                                         *)
(* Text is a sequence of one-character strings; a byte string is a         *)
(* sequence of bytes, an ASCII byte being written as its character and the *)
(* two bytes of the UTF-8 encoding of U+00E9 as "xC3" and "xA9".           *)
(***************************************************************************)
EXTENDS Integers, Sequences, FiniteSets, TLC

NL == "\n"
TAB == "\t"
CR == "\r"

\* The characters str.strip() and bytes.strip() remove (those of the alphabet).
Whitespace == {" ", TAB, CR, NL}

(***************************************************************************)
(* Python string methods                                                   *)
(***************************************************************************)
RECURSIVE FirstNonWs(_, _)
FirstNonWs(s, i) ==
    IF i > Len(s) THEN i
    ELSE IF s[i] \in Whitespace THEN FirstNonWs(s, i + 1) ELSE i

RECURSIVE LastNonWs(_, _)
LastNonWs(s, j) ==
    IF j < 1 THEN 0
    ELSE IF s[j] \in Whitespace THEN LastNonWs(s, j - 1) ELSE j

\* strip that removes nothing.
no_strip(s) == s

\* s.strip()
strip(s) == SubSeq(s, FirstNonWs(s, 1), LastNonWs(s, Len(s)))

\* s.startswith(p), s.endswith(p)
startswith(s, p) == Len(s) >= Len(p) /\ SubSeq(s, 1, Len(p)) = p

\* endswith that tests the start of s.
endswith_at_start(s, p) == Len(s) >= Len(p) /\ SubSeq(s, 1, Len(p)) = p

endswith(s, p) == Len(s) >= Len(p) /\ SubSeq(s, Len(s) - Len(p) + 1, Len(s)) = p

\* s.split("\n"): the pieces between newlines, always at least one piece.
split(s) ==
    LET P == {i \in 1..Len(s) : s[i] = NL}
        k == Cardinality(P)
        pos(j) == IF j = 0 THEN 0
                  ELSE IF j = k + 1 THEN Len(s) + 1
                  ELSE CHOOSE p \in P : Cardinality({q \in P : q <= p}) = j
    IN  [j \in 1..(k + 1) |-> SubSeq(s, pos(j - 1) + 1, pos(j) - 1)]

\* s[i-1:j] of Python in 1-based positions: the characters i..j that exist.
slice(s, i, j) == SubSeq(s, i, IF j > Len(s) THEN Len(s) ELSE j)

RECURSIVE Concat(_)
Concat(ss) == IF ss = <<>> THEN <<>> ELSE Head(ss) \o Concat(Tail(ss))

(***************************************************************************)
(* bytes.decode("utf-8")                                                   *)
(***************************************************************************)
LeadBytes == {"xC3"}
ContBytes == {"xA9"}
EAcute == "U+00E9"

NoException == [type |-> "none", msg |-> <<>>]

Exception(type, msg) == [type |-> type, msg |-> msg]

\* The characters of bytes lo..hi, each lead byte giving the character it starts.
RECURSIVE decoded_chars(_, _, _)
decoded_chars(b, lo, hi) ==
    IF lo > hi THEN <<>>
    ELSE IF lo = hi
    THEN (IF b[lo] \in LeadBytes THEN <<EAcute>>
          ELSE IF b[lo] \in ContBytes THEN <<>>
          ELSE <<b[lo]>>)
    ELSE LET mid == (lo + hi) \div 2
         IN  decoded_chars(b, lo, mid) \o decoded_chars(b, mid + 1, hi)

\* b.decode("utf-8"): the text of a chunk, or the UnicodeDecodeError that a
\* multi-byte character cut by the end of the chunk, a lead byte without its
\* continuation byte or a stray continuation byte raises.
decode(b) ==
    LET truncated == {i \in 1..Len(b) : b[i] \in LeadBytes /\ i = Len(b)}
        broken == {i \in 1..Len(b) : b[i] \in LeadBytes /\ i < Len(b) /\ b[i + 1] \notin ContBytes}
        stray == {i \in 1..Len(b) : b[i] \in ContBytes /\ (i = 1 \/ b[i - 1] \notin LeadBytes)}
        bad == truncated \cup broken \cup stray
        first == CHOOSE i \in bad : \A j \in bad : i <= j
    IN  IF bad = {} THEN [exc |-> NoException, text |-> decoded_chars(b, 1, Len(b))]
        ELSE [exc |-> Exception("UnicodeDecodeError",
                         IF first \in truncated THEN <<"u", "n", "e", "x", "p", "e", "c", "t", "e", "d", " ", "e", "n", "d", " ", "o", "f", " ", "d", "a", "t", "a">>
                         ELSE IF first \in broken THEN <<"i", "n", "v", "a", "l", "i", "d", " ", "c", "o", "n", "t", "i", "n", "u", "a", "t", "i", "o", "n", " ", "b", "y", "t", "e">>
                         ELSE <<"i", "n", "v", "a", "l", "i", "d", " ", "s", "t", "a", "r", "t", " ", "b", "y", "t", "e">>),
              text |-> <<>>]

\* s.encode("utf-8") of characters lo..hi, used to put a text on the upstream wire.
RECURSIVE encoded_bytes(_, _, _)
encoded_bytes(s, lo, hi) ==
    IF lo > hi THEN <<>>
    ELSE IF lo = hi THEN (IF s[lo] = EAcute THEN <<"xC3", "xA9">> ELSE <<s[lo]>>)
    ELSE LET mid == (lo + hi) \div 2
         IN  encoded_bytes(s, lo, mid) \o encoded_bytes(s, mid + 1, hi)

encode(s) == encoded_bytes(s, 1, Len(s))

(***************************************************************************)
(* json.loads and json.dumps                                               *)
(*                                                                         *)
(* A JSON value is [t |-> tag, v |-> ...]: "null", "bool" (v a BOOLEAN),   *)
(* "str" (v a text), "arr" (v a sequence of values), "obj" (v a sequence   *)
(* of <<key text, value>> pairs in document order).  Numbers and the       *)
(* NaN/Infinity literals are outside the alphabet of the upstream texts    *)
(* (no digit, no "-", no "Na", no "In" occurs in them), so a text that     *)
(* would need them does not arise and is reported as a decode error.       *)
(***************************************************************************)
JNull == [t |-> "null", v |-> FALSE]
JBool(b) == [t |-> "bool", v |-> b]
JStr(s) == [t |-> "str", v |-> s]
JArr(a) == [t |-> "arr", v |-> a]
JObj(p) == [t |-> "obj", v |-> p]

JsonWs == {" ", TAB, CR, NL}

ParseFail == [ok |-> FALSE, val |-> JNull, next |-> 0]
ParseOk(val, next) == [ok |-> TRUE, val |-> val, next |-> next]

RECURSIVE skipWs(_, _)
skipWs(s, i) ==
    IF i <= Len(s) /\ s[i] \in JsonWs THEN skipWs(s, i + 1) ELSE i

\* The characters a \uXXXX escape can name: those of the alphabet.
UnicodeEscapes == {<<<<"0", "0", "e", "9">>, EAcute>>, <<<<"0", "0", "E", "9">>, EAcute>>}

\* d[k] = x on a dict kept as a sequence of <<key, value>> pairs: a repeated key
\* keeps its place and takes the later value.
dict_set(d, k, x) ==
    IF \E n \in 1..Len(d) : d[n][1] = k
    THEN [n \in 1..Len(d) |-> IF d[n][1] = k THEN <<k, x>> ELSE d[n]]
    ELSE Append(d, <<k, x>>)

\* What an escape \c stands for, for the one-character escapes.
Unescaped(c) ==
    CASE c = "n" -> NL
      [] c = "t" -> TAB
      [] c = "r" -> CR
      [] OTHER -> c

\* The body of a string, from position i (after the opening quote), acc being
\* the characters read so far: the plain characters up to the next quote,
\* backslash or control character are taken at once.
RECURSIVE parseString(_, _, _)
parseString(s, i, acc) ==
    LET special == {p \in i..Len(s) : s[p] \in {"\"", "\\", NL, TAB, CR}}
        p == CHOOSE q \in special : \A q2 \in special : q <= q2
        plain == acc \o SubSeq(s, i, p - 1)
    IN  IF special = {} THEN ParseFail                 \* unterminated string
        ELSE IF s[p] = "\"" THEN ParseOk(JStr(plain), p + 1)
        ELSE IF s[p] # "\\" THEN ParseFail             \* strict: no control character
        ELSE IF p + 1 > Len(s) THEN ParseFail
        ELSE IF s[p + 1] \in {"\"", "\\", "/", "n", "t", "r"}
        THEN parseString(s, p + 2, Append(plain, Unescaped(s[p + 1])))
        ELSE IF s[p + 1] = "u" /\ p + 5 <= Len(s)
                /\ \E e \in UnicodeEscapes : e[1] = SubSeq(s, p + 2, p + 5)
        THEN LET u == CHOOSE e \in UnicodeEscapes : e[1] = SubSeq(s, p + 2, p + 5)
             IN  parseString(s, p + 6, Append(plain, u[2]))
        ELSE ParseFail

\* A value the definitions below use several times is bound by a set binder,
\*     CHOOSE out \in {F(r) : r \in {e}} : TRUE     (that is, LET r == e IN F(r)),
\* which evaluates e once.
RECURSIVE parseValue(_, _)
RECURSIVE parseArray(_, _, _)
RECURSIVE array_after_value(_, _, _)
RECURSIVE parseObject(_, _, _)
RECURSIVE object_after_key(_, _, _)
RECURSIVE object_after_value(_, _, _, _)

\* The elements of an array, from position i where a value is expected.
parseArray(s, i, acc) ==
    CHOOSE out \in {array_after_value(s, acc, r) : r \in {parseValue(s, i)}} : TRUE

array_after_value(s, acc, r) ==
    IF ~r.ok THEN ParseFail
    ELSE LET j == skipWs(s, r.next)
         IN  IF j > Len(s) THEN ParseFail
             ELSE IF s[j] = "]" THEN ParseOk(JArr(Append(acc, r.val)), j + 1)
             ELSE IF s[j] = "," THEN parseArray(s, skipWs(s, j + 1), Append(acc, r.val))
             ELSE ParseFail

\* The members of an object, from position i where a key's quote is expected.
parseObject(s, i, acc) ==
    IF i > Len(s) \/ s[i] # "\"" THEN ParseFail
    ELSE CHOOSE out \in {object_after_key(s, acc, k) : k \in {parseString(s, i + 1, <<>>)}} : TRUE

object_after_key(s, acc, k) ==
    IF ~k.ok THEN ParseFail
    ELSE LET c == skipWs(s, k.next)
         IN  IF c > Len(s) \/ s[c] # ":" THEN ParseFail
             ELSE CHOOSE out \in {object_after_value(s, acc, k.val.v, r) :
                                    r \in {parseValue(s, skipWs(s, c + 1))}} : TRUE

object_after_value(s, acc, key, r) ==
    IF ~r.ok THEN ParseFail
    ELSE LET j == skipWs(s, r.next)
         IN  IF j > Len(s) THEN ParseFail
             ELSE IF s[j] = "}" THEN ParseOk(JObj(dict_set(acc, key, r.val)), j + 1)
             ELSE IF s[j] = "," THEN parseObject(s, skipWs(s, j + 1), dict_set(acc, key, r.val))
             ELSE ParseFail

parseValue(s, i) ==
    IF i > Len(s) THEN ParseFail
    ELSE IF s[i] = "\"" THEN parseString(s, i + 1, <<>>)
    ELSE IF s[i] = "{"
    THEN LET j == skipWs(s, i + 1)
         IN  IF j <= Len(s) /\ s[j] = "}" THEN ParseOk(JObj(<<>>), j + 1)
             ELSE parseObject(s, j, <<>>)
    ELSE IF s[i] = "["
    THEN LET j == skipWs(s, i + 1)
         IN  IF j <= Len(s) /\ s[j] = "]" THEN ParseOk(JArr(<<>>), j + 1)
             ELSE parseArray(s, j, <<>>)
    ELSE IF slice(s, i, i + 3) = <<"n", "u", "l", "l">> THEN ParseOk(JNull, i + 4)
    ELSE IF slice(s, i, i + 3) = <<"t", "r", "u", "e">> THEN ParseOk(JBool(TRUE), i + 4)
    ELSE IF slice(s, i, i + 4) = <<"f", "a", "l", "s", "e">> THEN ParseOk(JBool(FALSE), i + 5)
    ELSE ParseFail

\* The whole text must be one value: anything after it is "Extra data".
loads_result(s, r) ==
    IF r.ok /\ skipWs(s, r.next) > Len(s) THEN [ok |-> TRUE, val |-> r.val]
    ELSE [ok |-> FALSE, val |-> JNull]

\* json.loads(s): [ok |-> FALSE] stands for json.JSONDecodeError.
json_loads(s) ==
    CHOOSE out \in {loads_result(s, r) : r \in {parseValue(s, skipWs(s, 1))}} : TRUE

\* json.dumps of characters lo..hi of a text, ensure_ascii as by default.
RECURSIVE dumps_chars(_, _, _)
dumps_chars(s, lo, hi) ==
    IF lo > hi THEN <<>>
    ELSE IF lo = hi
    THEN (CASE s[lo] = "\"" -> <<"\\", "\"">>
            [] s[lo] = "\\" -> <<"\\", "\\">>
            [] s[lo] = NL -> <<"\\", "n">>
            [] s[lo] = TAB -> <<"\\", "t">>
            [] s[lo] = CR -> <<"\\", "r">>
            [] s[lo] = EAcute -> <<"\\", "u", "0", "0", "e", "9">>
            [] OTHER -> <<s[lo]>>)
    ELSE LET mid == (lo + hi) \div 2
         IN  dumps_chars(s, lo, mid) \o dumps_chars(s, mid + 1, hi)

dumps_str(s) == <<"\"">> \o dumps_chars(s, 1, Len(s)) \o <<"\"">>

RECURSIVE json_dumps(_)
RECURSIVE dumps_items(_, _)

\* The items of a list (pairs = FALSE) or a dict (pairs = TRUE), joined by ", ".
dumps_items(xs, pairs) ==
    IF xs = <<>> THEN <<>>
    ELSE (IF pairs THEN dumps_str(Head(xs)[1]) \o <<":", " ">> \o json_dumps(Head(xs)[2])
          ELSE json_dumps(Head(xs)))
         \o (IF Len(xs) > 1 THEN <<",", " ">> ELSE <<>>)
         \o dumps_items(Tail(xs), pairs)

json_dumps(x) ==
    CASE x.t = "null" -> <<"n", "u", "l", "l">>
      [] x.t = "bool" -> IF x.v THEN <<"t", "r", "u", "e">> ELSE <<"f", "a", "l", "s", "e">>
      [] x.t = "str" -> dumps_str(x.v)
      [] x.t = "arr" -> <<"[">> \o dumps_items(x.v, FALSE) \o <<"]">>
      [] x.t = "obj" -> <<"{">> \o dumps_items(x.v, TRUE) \o <<"}">>

(***************************************************************************)
(* Python's attribute and subscript protocol on a parsed JSON value        *)
(***************************************************************************)
type_name(x) ==
    CASE x.t = "null" -> <<"'", "N", "o", "n", "e", "T", "y", "p", "e", "'">>
      [] x.t = "bool" -> <<"'", "b", "o", "o", "l", "'">>
      [] x.t = "str" -> <<"'", "s", "t", "r", "'">>
      [] x.t = "arr" -> <<"'", "l", "i", "s", "t", "'">>
      [] x.t = "obj" -> <<"'", "d", "i", "c", "t", "'">>

Value(x) == [exc |-> NoException, val |-> x]
Raise(type, msg) == [exc |-> Exception(type, msg), val |-> JNull]

\* x.get(key, default): a dict method only.
get(x, key, default) ==
    IF x.t # "obj"
    THEN Raise("AttributeError", type_name(x) \o <<" ", "o", "b", "j", "e", "c", "t", " ", "h", "a", "s", " ", "n", "o", " ", "a", "t", "t", "r", "i", "b", "u", "t", "e", " ", "'", "g", "e", "t", "'">>)
    ELSE IF \E n \in 1..Len(x.v) : x.v[n][1] = key
    THEN Value(x.v[CHOOSE n \in 1..Len(x.v) : x.v[n][1] = key][2])
    ELSE Value(default)

\* x[0]
getitem0(x) ==
    CASE x.t = "arr" -> IF x.v = <<>> THEN Raise("IndexError", <<"l", "i", "s", "t", " ", "i", "n", "d", "e", "x", " ", "o", "u", "t", " ", "o", "f", " ", "r", "a", "n", "g", "e">>)
                        ELSE Value(x.v[1])
      [] x.t = "str" -> IF x.v = <<>> THEN Raise("IndexError", <<"s", "t", "r", "i", "n", "g", " ", "i", "n", "d", "e", "x", " ", "o", "u", "t", " ", "o", "f", " ", "r", "a", "n", "g", "e">>)
                        ELSE Value(JStr(<<x.v[1]>>))
      [] x.t = "obj" -> Raise("KeyError", <<"0">>)
      [] OTHER -> Raise("TypeError", type_name(x) \o <<" ", "o", "b", "j", "e", "c", "t", " ", "i", "s", " ", "n", "o", "t", " ", "s", "u", "b", "s", "c", "r", "i", "p", "t", "a", "b", "l", "e">>)

\* truthy as a test for None only: an empty value counts as given.
is_not_none(x) == x.t # "null"

\* bool(x)
truthy(x) ==
    CASE x.t = "null" -> FALSE
      [] x.t = "bool" -> x.v
      [] OTHER -> x.v # <<>>

(***************************************************************************)
(* _process_stream_chunk                                                   *)
(***************************************************************************)
\* delta_content reading the buffered response's "message" where the streamed
\* chunk has "delta".
delta_content_of_message(chunk_data) ==
    LET choices == get(chunk_data, <<"c", "h", "o", "i", "c", "e", "s">>, JArr(<<JObj(<<>>)>>))
    IN  IF choices.exc # NoException THEN choices
        ELSE LET first == getitem0(choices.val)
             IN  IF first.exc # NoException THEN first
                 ELSE LET delta == get(first.val, <<"m", "e", "s", "s", "a", "g", "e">>, JObj(<<>>))
                      IN  IF delta.exc # NoException THEN delta
                          ELSE get(delta.val, <<"c", "o", "n", "t", "e", "n", "t">>, JStr(<<>>))

\* chunk_data.get("choices", [{}])[0].get("delta", {}).get("content", "")
delta_content(chunk_data) ==
    LET choices == get(chunk_data, <<"c", "h", "o", "i", "c", "e", "s">>, JArr(<<JObj(<<>>)>>))
    IN  IF choices.exc # NoException THEN choices
        ELSE LET first == getitem0(choices.val)
             IN  IF first.exc # NoException THEN first
                 ELSE LET delta == get(first.val, <<"d", "e", "l", "t", "a">>, JObj(<<>>))
                      IN  IF delta.exc # NoException THEN delta
                          ELSE get(delta.val, <<"c", "o", "n", "t", "e", "n", "t">>, JStr(<<>>))

\* content_event with one newline after the event where the code writes two.
content_event_one_newline(content) ==
    <<"d", "a", "t", "a", ":", " ">> \o json_dumps(JObj(<<<<<<"c", "o", "n", "t", "e", "n", "t">>, content>>>>)) \o <<NL>>

\* f"data: {json.dumps(data_to_yield)}\n\n" with data_to_yield = {"content": content}
content_event(content) ==
    <<"d", "a", "t", "a", ":", " ">> \o json_dumps(JObj(<<<<<<"c", "o", "n", "t", "e", "n", "t">>, content>>>>)) \o <<NL, NL>>

DoneLine == <<"d", "a", "t", "a", ":", " ", "[", "D", "O", "N", "E", "]">>
DoneEvent == <<"d", "a", "t", "a", ":", " ", "[", "D", "O", "N", "E", "]", NL, NL>>

\* What one line adds to processed_data, whether the loop ends with it (break,
\* or an exception that escapes), and that exception.
LineResult(exc, out, stop) == [exc |-> exc, out |-> out, stop |-> stop]

\* A data line whose payload parsed: the content of its delta, emitted if truthy.
emit_content(content) ==
    IF content.exc # NoException THEN LineResult(content.exc, <<>>, TRUE)
    ELSE IF truthy(content.val) THEN LineResult(NoException, content_event(content.val), FALSE)
    ELSE LineResult(NoException, <<>>, FALSE)

\* parse_payload without the except clause for json.JSONDecodeError.
parse_payload_uncaught(parsed) ==
    IF ~parsed.ok
    THEN LineResult(Exception("JSONDecodeError", <<"E", "x", "p", "e", "c", "t", "i", "n", "g", " ", "v", "a", "l", "u", "e", ":", " ", "l", "i", "n", "e", " ", "1", " ", "c", "o", "l", "u", "m", "n", " ", "1", " ", "(", "c", "h", "a", "r", " ", "0", ")">>),
                    <<>>, TRUE)
    ELSE CHOOSE out \in {emit_content(c) : c \in {delta_content(parsed.val)}} : TRUE

\* json.loads(json_str) and what follows it; a JSONDecodeError is caught and logged.
parse_payload(parsed) ==
    IF ~parsed.ok THEN LineResult(NoException, <<>>, FALSE)
    ELSE CHOOSE out \in {emit_content(c) : c \in {delta_content(parsed.val)}} : TRUE

\* The body of the loop for one complete line.
process_line(line) ==
    IF startswith(line, <<"d", "a", "t", "a", ":">>) /\ strip(line) # DoneLine
    THEN LET json_str == strip(slice(line, 6, Len(line)))
         IN  IF json_str = <<>> THEN LineResult(NoException, <<>>, FALSE)
             ELSE CHOOSE out \in {parse_payload(p) : p \in {json_loads(json_str)}} : TRUE
    ELSE IF strip(line) = DoneLine
    THEN LineResult(NoException, DoneEvent, TRUE)
    ELSE LineResult(NoException, <<>>, FALSE)

\* for line in lines[:-1], from line i on, processed_data so far being acc.
RECURSIVE process_lines(_, _, _)
RECURSIVE after_line(_, _, _, _)
process_lines(lines, i, acc) ==
    IF i > Len(lines) - 1 THEN [exc |-> NoException, processed_data |-> acc]
    ELSE CHOOSE out \in {after_line(lines, i, acc, r) : r \in {process_line(lines[i])}} : TRUE

after_line(lines, i, acc, r) ==
    IF r.exc # NoException THEN [exc |-> r.exc, processed_data |-> <<>>]
    ELSE IF r.stop THEN [exc |-> NoException, processed_data |-> acc \o r.out]
    ELSE process_lines(lines, i + 1, acc \o r.out)

\* chunk_result that keeps the first piece of the split as the buffer.
chunk_result_first_piece(lines, r) ==
    [exc |-> r.exc, processed_data |-> r.processed_data, buffer |-> lines[1]]

\* (processed_data, buffer) for the lines of buffer + chunk.
chunk_result(lines, r) ==
    [exc |-> r.exc, processed_data |-> r.processed_data, buffer |-> lines[Len(lines)]]

\* _process_stream_chunk(chunk, buffer): (processed_data, buffer), or the
\* exception that escapes it.
_process_stream_chunk(chunk, buffer0) ==
    CHOOSE out \in {chunk_result(lines, r) :
                      lines \in {split(buffer0 \o chunk)},
                      r \in {process_lines(split(buffer0 \o chunk), 1, <<>>)}} : TRUE

(***************************************************************************)
(* The upstream of a streaming call                                        *)
(***************************************************************************)
\* An upstream data line whose first choice has the given delta (JSON text).
delta_line(delta) == <<"d", "a", "t", "a", ":", " ", "{", "\"", "c", "h", "o", "i", "c", "e", "s", "\"", ":", "[", "{", "\"", "d", "e", "l", "t", "a", "\"", ":">> \o delta \o <<"}", "]", "}">>

ContentFe == delta_line(<<"{", "\"", "c", "o", "n", "t", "e", "n", "t", "\"", ":", "\"", "F", "e", "\"", "}">>)
ContentEAcute == delta_line(<<"{", "\"", "c", "o", "n", "t", "e", "n", "t", "\"", ":", "\"", EAcute, "\"", "}">>)
ContentEscaped == delta_line(<<"{", "\"", "c", "o", "n", "t", "e", "n", "t", "\"", ":", "\"", "\\", "\"", "\\", "\\", "\"", "}">>)
ContentTrue == delta_line(<<"{", "\"", "c", "o", "n", "t", "e", "n", "t", "\"", ":", "t", "r", "u", "e", "}">>)
ContentCRLF == <<"d", "a", "t", "a", ":", "{", "\"", "c", "h", "o", "i", "c", "e", "s", "\"", ":", "[", "{", "\"", "d", "e", "l", "t", "a", "\"", ":", "{", "\"", "c", "o", "n", "t", "e", "n", "t", "\"", ":", "\"", "F", "e", "\"", "}", "}", "]", "}", CR>>
EmptyDelta == delta_line(<<"{", "}">>)
EmptyContent == delta_line(<<"{", "\"", "c", "o", "n", "t", "e", "n", "t", "\"", ":", "\"", "\"", "}">>)
NullDelta == delta_line(<<"n", "u", "l", "l">>)
NoChoices == <<"d", "a", "t", "a", ":", " ", "{", "}">>
EmptyChoices == <<"d", "a", "t", "a", ":", " ", "{", "\"", "c", "h", "o", "i", "c", "e", "s", "\"", ":", "[", "]", "}">>
NotAnObject == <<"d", "a", "t", "a", ":", " ", "[", "]">>
Malformed == <<"d", "a", "t", "a", ":", " ", "{", "\"", "c", "h", "o", "i", "c", "e", "s", "\"", ":", "[", "{", "\"", "d", "e", "l">>
Comment == <<":", " ", "p", "i", "n", "g">>

\* A response body: the given lines, each terminated by a newline.
RECURSIVE body_of(_)
body_of(lines) ==
    IF lines = <<>> THEN <<>> ELSE Head(lines) \o <<NL>> \o body_of(Tail(lines))

\* The response bodies (texts) the upstream sends in the model.
UpstreamTexts ==
    { body_of(<<ContentFe>>),
      body_of(<<ContentFe, DoneLine>>),
      body_of(<<DoneLine>>),
      body_of(<<DoneLine, ContentFe>>),
      body_of(<<ContentEAcute>>),
      body_of(<<ContentEscaped>>),
      body_of(<<ContentTrue>>),
      body_of(<<ContentCRLF>>),
      body_of(<<Malformed, ContentFe>>),
      body_of(<<EmptyDelta, ContentFe>>),
      body_of(<<EmptyContent, ContentFe>>),
      body_of(<<NullDelta, ContentFe>>),
      body_of(<<NoChoices, ContentFe>>),
      body_of(<<EmptyChoices, ContentFe>>),
      body_of(<<NotAnObject, ContentFe>>),
      body_of(<<Comment, <<>>, ContentFe>>),
      ContentFe,
      DoneLine,
      <<>> }

UpstreamBodies == { encode(t) : t \in UpstreamTexts }

\* What the upstream writes to the connection, write by write: a body in one
\* write, or the two writes of the example of the specification.
UpstreamScripts ==
    { IF b = <<>> THEN <<>> ELSE <<b>> : b \in UpstreamBodies }
    \cup { <<encode(<<"d", "a", "t", "a", ":", " ", "{", "\"", "c", "h", "o", "i", "c", "e", "s", "\"", ":", "[", "{", "\"", "d", "e", "l">>),
             encode(<<"t", "a", "\"", ":", "{", "\"", "c", "o", "n", "t", "e", "n", "t", "\"", ":", "\"", "F", "e", "\"", "}", "}", "]", "}", NL, "d", "a", "t", "a", ":", " ", "[", "D", "O", "N", "E", "]", NL>>)>> }

\* The statuses the upstream answers with.
Statuses == {200, 429, 500}

is_success(status) == status >= 200 /\ status <= 299

(***************************************************************************)
(* generate_streaming_response                                             *)
(***************************************************************************)
\* The chunks of a call are counted up to this many; more count as this many.
MaxCounted == 3

VARIABLES
    pc,        \* where the generator is: "start", "streaming", "yield_done",
               \* "closed" (returned) or "crashed" (an exception escaped it)
    script,    \* what the upstream writes in this call, write by write
    recut,     \* whether the transport cuts the writes into chunks of its own
    pending,   \* the writes (or rests of writes) the transport has yet to deliver
    chunks,    \* how many chunks aiter_bytes() has delivered (up to MaxCounted)
    buffer,    \* the generator's local carry-over buffer
    emitted,   \* the blocks yielded to the caller, in order
    raised,    \* the exception that ended the try block, if any
    openrouter_api_key,  \* the module-level credential: JNull when not set
    call,      \* where analyze_composition is: "idle", "awaiting_upstream",
               \* "returned" or "raised"
    request,   \* the CompositionRequest of the call
    json_data, \* the payload built for the upstream
    response,  \* the upstream's answer to the buffered POST
    reply,     \* what analyze_composition returns or raises
    calls      \* the frames of the streaming calls that run concurrently: of
               \* each its pc, script, pending, buffer, emitted and raised

stream_vars == <<pc, script, recut, pending, chunks, buffer, emitted, raised>>

endpoint_vars == <<openrouter_api_key, call, request, json_data, response, reply>>

vars == <<stream_vars, endpoint_vars, calls>>

NoRequest == [name |-> <<>>, id |-> <<>>, spectral_type |-> JNull, use_streaming |-> FALSE]
NoPayload == [model |-> <<>>, models |-> <<>>, messages |-> <<>>, max_tokens |-> 0,
              temperature |-> "", stream |-> FALSE]
NoResponse == [status |-> 0, text |-> <<>>]
NoReply == [kind |-> "none"]

\* f"data: {json.dumps(error_content)}\n\n", error_content = {"error": message}
error_event(message) ==
    <<"d", "a", "t", "a", ":", " ">> \o json_dumps(JObj(<<<<<<"e", "r", "r", "o", "r">>, JStr(message)>>>>)) \o <<NL, NL>>

\* except Exception as e: the first of its two yields.
unexpected_error(e) ==
    /\ raised' = e
    /\ emitted' = Append(emitted, error_event(<<"U", "n", "e", "x", "p", "e", "c", "t", "e", "d", " ", "e", "r", "r", "o", "r", ":", " ">> \o e.msg))
    /\ pc' = "yield_done"

Init ==
    /\ pc = "start"
    /\ script = <<>>
    /\ recut = FALSE
    /\ pending = <<>>
    /\ chunks = 0
    /\ buffer = <<>>
    /\ emitted = <<>>
    /\ raised = NoException
    /\ openrouter_api_key = JStr(<<"s", "k", "-", "o", "r">>)
    /\ call = "idle"
    /\ request = NoRequest
    /\ json_data = NoPayload
    /\ response = NoResponse
    /\ reply = NoReply
    /\ calls = <<>>

\* client.stream(...) answers 2xx: raise_for_status() passes, buffer = "".
OpenStream ==
    /\ pc = "start"
    /\ \E status \in Statuses, s \in UpstreamScripts :
          /\ is_success(status)
          /\ script' = s
          /\ pending' = s
    /\ recut' \in BOOLEAN
    /\ pc' = "streaming"
    /\ buffer' = <<>>
    /\ UNCHANGED <<chunks, emitted, raised>>
    /\ UNCHANGED endpoint_vars
    /\ UNCHANGED calls

\* client.stream(...) answers non-2xx: raise_for_status() raises HTTPStatusError,
\* whose handler reads e.response.text of a response that was opened with
\* stream() and never read: httpx raises ResponseNotRead there, inside the
\* handler, so no other except clause applies and the generator ends with it.
StreamStatusError ==
    /\ pc = "start"
    /\ \E status \in Statuses : ~is_success(status)
    /\ raised' = Exception("ResponseNotRead", <<"A", "t", "t", "e", "m", "p", "t", "e", "d", " ", "t", "o", " ", "a", "c", "c", "e", "s", "s", " ", "s", "t", "r", "e", "a", "m", "i", "n", "g", " ", "r", "e", "s", "p", "o", "n", "s", "e", " ", "c", "o", "n", "t", "e", "n", "t", ",", " ", "w", "i", "t", "h", "o", "u", "t", " ", "h", "a", "v", "i", "n", "g", " ", "c", "a", "l", "l", "e", "d", " ", "r", "e", "a", "d", "(", ")", ".">>)
    /\ pc' = "crashed"
    /\ UNCHANGED <<script, recut, pending, chunks, buffer, emitted>>
    /\ UNCHANGED endpoint_vars
    /\ UNCHANGED calls

\* The exceptions of the transport: the request or the read of the next chunk
\* fails (network error, timeout).
TransportErrors == {Exception("ReadTimeout", <<>>)}

TransportError ==
    /\ pc \in {"start", "streaming"}
    /\ \E e \in TransportErrors : unexpected_error(e)
    /\ UNCHANGED <<script, recut, pending, chunks, buffer>>
    /\ UNCHANGED endpoint_vars
    /\ UNCHANGED calls

\* One turn of `async for chunk in response.aiter_bytes()`: the transport
\* delivers the next write, or if it cuts the writes, any part of it.
RecvChunk ==
    /\ pc = "streaming"
    /\ pending # <<>>
    /\ \E n \in 1..Len(Head(pending)) :
          /\ recut \/ n = Len(Head(pending))
          /\ pending' = IF n = Len(Head(pending)) THEN Tail(pending)
                        ELSE <<SubSeq(Head(pending), n + 1, Len(Head(pending)))>> \o Tail(pending)
          /\ chunks' = IF chunks < MaxCounted THEN chunks + 1 ELSE chunks
          /\ \E chunk \in {SubSeq(Head(pending), 1, n)} :
                IF strip(chunk) = <<>>
                THEN UNCHANGED <<pc, buffer, emitted, raised>>
                ELSE \E text \in {decode(chunk)} :
                        IF text.exc # NoException
                        THEN unexpected_error(text.exc) /\ UNCHANGED buffer
                        ELSE \E r \in {_process_stream_chunk(text.text, buffer)} :
                                IF r.exc # NoException
                                THEN unexpected_error(r.exc) /\ UNCHANGED buffer
                                ELSE /\ buffer' = r.buffer
                                     /\ emitted' = IF r.processed_data # <<>>
                                                   THEN Append(emitted, r.processed_data)
                                                   ELSE emitted
                                     /\ UNCHANGED <<pc, raised>>
    /\ UNCHANGED <<script, recut>>
    /\ UNCHANGED endpoint_vars
    /\ UNCHANGED calls

\* The upstream closed: the loop ends and the end-of-input check runs.
EndOfStream ==
    /\ pc = "streaming"
    /\ pending = <<>>
    /\ emitted' = IF ~endswith(strip(buffer), <<"[", "D", "O", "N", "E", "]">>)
                  THEN Append(emitted, DoneEvent)
                  ELSE emitted
    /\ pc' = "closed"
    /\ UNCHANGED <<script, recut, pending, chunks, buffer, raised>>
    /\ UNCHANGED endpoint_vars
    /\ UNCHANGED calls

\* The exceptions with which the server ends a generator whose caller has
\* disconnected: the task is cancelled at an await, or the generator is closed
\* at a yield.
Cancellations == {Exception("CancelledError", <<>>), Exception("GeneratorExit", <<>>)}

\* is_exception when every exception derives from Exception.
is_exception_always(type) == type = type

\* except Exception catches the exception: CancelledError and GeneratorExit
\* derive from BaseException, not from Exception.
is_exception(type) == type \notin {"CancelledError", "GeneratorExit"}

\* The caller disconnects: the exception is thrown into the generator where it
\* is suspended. Inside the try block an except clause that catches it runs;
\* thrown at the yield of an except clause, or not caught, it ends the
\* generator, and the async with blocks it leaves release the connection.
Cancel ==
    /\ pc \in {"start", "streaming", "yield_done"}
    /\ \E e \in Cancellations :
          IF pc # "yield_done" /\ is_exception(e.type)
          THEN unexpected_error(e)
          ELSE pc' = "cancelled" /\ UNCHANGED <<emitted, raised>>
    /\ UNCHANGED <<script, recut, pending, chunks, buffer>>
    /\ UNCHANGED endpoint_vars
    /\ UNCHANGED calls

\* The upstream connection is held: the call is inside async with client.stream.
connection_open == pc = "streaming"

\* The second yield of an except clause: yield "data: [DONE]\n\n".
YieldDone ==
    /\ pc = "yield_done"
    /\ emitted' = Append(emitted, DoneEvent)
    /\ pc' = "closed"
    /\ UNCHANGED <<script, recut, pending, chunks, buffer, raised>>
    /\ UNCHANGED endpoint_vars
    /\ UNCHANGED calls

Next ==
    \/ OpenStream
    \/ StreamStatusError
    \/ TransportError
    \/ RecvChunk
    \/ EndOfStream
    \/ YieldDone
    \/ Cancel

Spec == Init /\ [][Next]_vars

\* The two writes of the example: data: {"choices":[{"del and the rest.
ExampleScript ==
    <<encode(<<"d", "a", "t", "a", ":", " ", "{", "\"", "c", "h", "o", "i", "c", "e", "s", "\"", ":", "[", "{", "\"", "d", "e", "l">>),
      encode(<<"t", "a", "\"", ":", "{", "\"", "c", "o", "n", "t", "e", "n", "t", "\"", ":", "\"", "F", "e", "\"", "}", "}", "]", "}", NL, "d", "a", "t", "a", ":", " ", "[", "D", "O", "N", "E", "]", NL>>)>>

(***************************************************************************)
(* Concurrent streaming calls: generate_streaming_response as a function   *)
(* of the frame of one call                                                *)
(***************************************************************************)
CallIds == {1, 2}

\* The frame of a call that has not started.
NewCall ==
    [pc |-> "start", script |-> <<>>, pending |-> <<>>, buffer |-> <<>>,
     emitted |-> <<>>, raised |-> NoException]

\* The writes of the upstreams of the concurrent calls: lines cut between writes.
ConcurrentScripts ==
    { ExampleScript,
      <<encode(<<"d", "a", "t", "a", ":", " ", "{", "\"", "c", "h", "o", "i", "c", "e", "s", "\"", ":", "[", "{", "\"", "d", "e", "l", "t", "a", "\"", ":", "{", "\"", "c", "o", "n", "t", "e", "n", "t", "\"", ":", "\"">>),
        encode(<<"U+00E9", "\"", "}", "}", "]", "}", NL, "d", "a", "t", "a", ":", " ", "{", "\"", "c", "h", "o">>),
        encode(<<"i", "c", "e", "s", "\"", ":", "[", "{", "\"", "d", "e", "l", "t", "a", "\"", ":", "{", "\"", "c", "o", "n", "t", "e", "n", "t", "\"", ":", "\"", "F", "e", "\"", "}", "}", "]", "}", NL>>)>>,
      <<encode(<<"d", "a", "t", "a", ":", " ", "{", "\"", "c", "h", "o", "i", "c", "e", "s", "\"", ":", "[", "{", "\"", "d", "e", "l", "t", "a", "\"", ":", "{", "\"", "c", "o", "n", "t", "e", "n", "t", "\"", ":", "\"">>) \o <<"xC3">>,
        <<"xA9">> \o encode(<<"\"", "}", "}", "]", "}", NL>>)>>,
      <<encode(<<"d", "a", "t", "a", ":", " ", "[", "D", "O", "N", "E", "]", NL>>)>> }

\* frame_buffer when the buffer is one variable of the module: every call reads
\* the buffer of the first.
module_buffer(frames, c) == frames[1].buffer

\* buffer = "" is a local variable of the generator: the buffer a call reads is
\* the buffer of its own frame.
frame_buffer(frames, c) == frames[c].buffer

\* except Exception as e, in the frame f.
call_failed(f, e) ==
    [f EXCEPT !.raised = e,
              !.emitted = Append(@, error_event(<<"U", "n", "e", "x", "p", "e", "c", "t", "e", "d", " ", "e", "r", "r", "o", "r", ":", " ">> \o e.msg)),
              !.pc = "yield_done"]

\* The body of async for, in the frame f with the given buffer, for the next write.
call_recv(f, buf) ==
    LET chunk == Head(f.pending)
        rest == [f EXCEPT !.pending = Tail(f.pending)]
        text == decode(chunk)
        r == _process_stream_chunk(text.text, buf)
    IN  IF strip(chunk) = <<>> THEN rest
        ELSE IF text.exc # NoException THEN call_failed(rest, text.exc)
        ELSE IF r.exc # NoException THEN call_failed(rest, r.exc)
        ELSE [rest EXCEPT !.buffer = r.buffer,
                          !.emitted = IF r.processed_data # <<>>
                                      THEN Append(@, r.processed_data) ELSE @]

\* The end-of-input check, in the frame f.
call_end(f) ==
    [f EXCEPT !.emitted = IF ~endswith(strip(f.buffer), <<"[", "D", "O", "N", "E", "]">>)
                          THEN Append(@, DoneEvent) ELSE @,
              !.pc = "closed"]

\* The second yield of the except clause, in the frame f.
call_yield_done(f) == [f EXCEPT !.emitted = Append(@, DoneEvent), !.pc = "closed"]

\* A call alone, from the frame f to its end.
RECURSIVE run_alone(_)
run_alone(f) ==
    IF f.pc = "streaming" /\ f.pending # <<>> THEN run_alone(call_recv(f, f.buffer))
    ELSE IF f.pc = "streaming" THEN run_alone(call_end(f))
    ELSE IF f.pc = "yield_done" THEN run_alone(call_yield_done(f))
    ELSE f

\* The frame of a call whose upstream has answered 2xx and will write script.
opened(s) == [NewCall EXCEPT !.pc = "streaming", !.script = s, !.pending = s]

InitConcurrent ==
    /\ pc = "unborn"
    /\ script = <<>>
    /\ recut = FALSE
    /\ pending = <<>>
    /\ chunks = 0
    /\ buffer = <<>>
    /\ emitted = <<>>
    /\ raised = NoException
    /\ openrouter_api_key = JStr(<<"s", "k", "-", "o", "r">>)
    /\ call = "idle"
    /\ request = NoRequest
    /\ json_data = NoPayload
    /\ response = NoResponse
    /\ reply = NoReply
    /\ calls = [c \in CallIds |-> NewCall]

CallOpen ==
    /\ \E c \in CallIds, s \in ConcurrentScripts :
          /\ calls[c].pc = "start"
          /\ calls' = [calls EXCEPT ![c] = opened(s)]
    /\ UNCHANGED <<stream_vars, endpoint_vars>>

CallRecvChunk ==
    /\ \E c \in CallIds :
          /\ calls[c].pc = "streaming"
          /\ calls[c].pending # <<>>
          /\ \E f \in {call_recv(calls[c], frame_buffer(calls, c))} :
                calls' = [calls EXCEPT ![c] = f]
    /\ UNCHANGED <<stream_vars, endpoint_vars>>

CallEndOfStream ==
    /\ \E c \in CallIds :
          /\ calls[c].pc = "streaming"
          /\ calls[c].pending = <<>>
          /\ calls' = [calls EXCEPT ![c] = call_end(calls[c])]
    /\ UNCHANGED <<stream_vars, endpoint_vars>>

CallYieldDone ==
    /\ \E c \in CallIds :
          /\ calls[c].pc = "yield_done"
          /\ calls' = [calls EXCEPT ![c] = call_yield_done(calls[c])]
    /\ UNCHANGED <<stream_vars, endpoint_vars>>

NextConcurrent ==
    \/ CallOpen
    \/ CallRecvChunk
    \/ CallEndOfStream
    \/ CallYieldDone

SpecConcurrent == InitConcurrent /\ [][NextConcurrent]_vars

(***************************************************************************)
(* analyze_composition (POST /analyze)                                     *)
(***************************************************************************)
DEFAULT_MODEL == <<"g", "o", "o", "g", "l", "e", "/", "g", "e", "m", "i", "n", "i", "-", "2", ".", "0", "-", "f", "l", "a", "s", "h", "-", "e", "x", "p", ":", "f", "r", "e", "e">>
ADVANCED_MODEL == <<"a", "n", "t", "h", "r", "o", "p", "i", "c", "/", "c", "l", "a", "u", "d", "e", "-", "3", ".", "5", "-", "s", "o", "n", "n", "e", "t", ":", "b", "e", "t", "a">>
FALLBACK_MODEL == <<"m", "e", "t", "a", "-", "l", "l", "a", "m", "a", "/", "l", "l", "a", "m", "a", "-", "3", ".", "2", "-", "3", "b", "-", "i", "n", "s", "t", "r", "u", "c", "t", ":", "f", "r", "e", "e">>
MAX_TOKENS == 2500

\* The requests of the model: spectral_type absent, empty or given.
Asteroids == {<<<<"1", " ", "C", "e", "r", "e", "s">>, <<"2", "0", "0", "0", "0", "0", "0", "1">>>>, <<<<"T", "e", "s", "t", " ", "A", "s", "t", "e", "r", "o", "i", "d">>, <<"9", "9", "9", "9", "9", "9", "9", "9">>>>}

Requests ==
    {[name |-> a[1], id |-> a[2], spectral_type |-> st, use_streaming |-> us] :
        a \in Asteroids, st \in {JNull, JStr(<<>>), JStr(<<"C">>)}, us \in BOOLEAN}

\* The values the credential takes: unset, empty, set.
ApiKeys == {JNull, JStr(<<>>), JStr(<<"s", "k", "-", "o", "r">>)}

\* The bodies the upstream answers the buffered POST with.
ResponseTexts ==
    { <<"r", "a", "t", "e", " ", "l", "i", "m", "i", "t", "e", "d">>,
      <<>>,
      <<"{", "\"", "c", "h", "o", "i", "c", "e", "s", "\"", ":", "[", "{", "\"", "m", "e", "s", "s", "a", "g", "e", "\"", ":", "{", "\"", "c", "o", "n", "t", "e", "n", "t", "\"", ":", "\"", "O", "l", "i", "v", "i", "n", "e", "-", "r", "i", "c", "h", "\"", "}", "}", "]", ",", "\"", "m", "o", "d", "e", "l", "\"", ":", "\"", "X", "\"", "}">>,
      <<"{", "\"", "c", "h", "o", "i", "c", "e", "s", "\"", ":", "[", "{", "\"", "m", "e", "s", "s", "a", "g", "e", "\"", ":", "{", "\"", "c", "o", "n", "t", "e", "n", "t", "\"", ":", "\"", "O", "l", "i", "v", "i", "n", "e", "-", "r", "i", "c", "h", "\"", "}", "}", "]", ",", "\"", "m", "o", "d", "e", "l", "\"", ":", "\"", "g", "o", "o", "g", "l", "e", "/", "g", "e", "m", "i", "n", "i", "-", "2", ".", "0", "-", "f", "l", "a", "s", "h", "-", "e", "x", "p", ":", "f", "r", "e", "e", "\"", "}">>,
      <<"{", "\"", "c", "h", "o", "i", "c", "e", "s", "\"", ":", "[", "{", "\"", "m", "e", "s", "s", "a", "g", "e", "\"", ":", "{", "}", "}", "]", "}">>,
      <<"{", "\"", "c", "h", "o", "i", "c", "e", "s", "\"", ":", "[", "]", "}">>,
      <<"{", "\"", "e", "r", "r", "o", "r", "\"", ":", "{", "\"", "m", "e", "s", "s", "a", "g", "e", "\"", ":", "\"", "r", "a", "t", "e", " ", "l", "i", "m", "i", "t", "e", "d", "\"", "}", "}">> }

\* build_composition_prompt: the lines of the prompt that depend on the request,
\* as <<label, value>> pairs (an optional attribute only when it is truthy).
build_composition_prompt(asteroid) ==
    <<<<"Asteroid Name", asteroid.name>>, <<"Asteroid ID", asteroid.id>>>>
    \o (IF truthy(asteroid.spectral_type)
        THEN <<<<"Spectral Type", asteroid.spectral_type.v>>>> ELSE <<>>)

_prepare_request_payload(model, system_prompt, user_prompt, stream) ==
    [model |-> model,
     models |-> <<model, FALLBACK_MODEL>>,
     messages |-> <<[role |-> "system", content |-> system_prompt],
                    [role |-> "user", content |-> user_prompt]>>,
     max_tokens |-> MAX_TOKENS,
     temperature |-> "0.7",
     stream |-> stream]

HTTPException(status_code, detail) ==
    [kind |-> "HTTPException", status_code |-> status_code, detail |-> detail]

\* status_error_reply when the handler for Exception comes first.
status_error_reply_generic(resp) ==
    HTTPException(500, <<"A", "n", " ", "u", "n", "e", "x", "p", "e", "c", "t", "e", "d", " ", "e", "r", "r", "o", "r", " ", "o", "c", "c", "u", "r", "r", "e", "d", ":", " ">> \o resp.text)

\* except httpx.HTTPStatusError as e
status_error_reply(resp) ==
    HTTPException(resp.status, <<"O", "p", "e", "n", "R", "o", "u", "t", "e", "r", " ", "A", "P", "I", " ", "e", "r", "r", "o", "r", ":", " ">> \o resp.text)

\* except Exception as e
unexpected_reply(e) ==
    HTTPException(500, <<"A", "n", " ", "u", "n", "e", "x", "p", "e", "c", "t", "e", "d", " ", "e", "r", "r", "o", "r", " ", "o", "c", "c", "u", "r", "r", "e", "d", ":", " ">> \o e.msg)

\* response_data.get("choices", [{}])[0].get("message", {}).get("content", "")
message_content(response_data) ==
    LET choices == get(response_data, <<"c", "h", "o", "i", "c", "e", "s">>, JArr(<<JObj(<<>>)>>))
    IN  IF choices.exc # NoException THEN choices
        ELSE LET first == getitem0(choices.val)
             IN  IF first.exc # NoException THEN first
                 ELSE LET message == get(first.val, <<"m", "e", "s", "s", "a", "g", "e">>, JObj(<<>>))
                      IN  IF message.exc # NoException THEN message
                          ELSE get(message.val, <<"c", "o", "n", "t", "e", "n", "t">>, JStr(<<>>))

\* The buffered branch once a 2xx response has arrived: response.json(), the
\* extraction of the content, and the result record. (The modelled bodies that
\* are not JSON fail at their first character.)
buffered_reply(req, payload, resp) ==
    LET parsed == json_loads(resp.text)
        content == message_content(parsed.val)
    IN  IF ~parsed.ok
        THEN unexpected_reply(Exception("JSONDecodeError",
                 <<"E", "x", "p", "e", "c", "t", "i", "n", "g", " ", "v", "a", "l", "u", "e", ":", " ", "l", "i", "n", "e", " ", "1", " ", "c", "o", "l", "u", "m", "n", " ", "1", " ", "(", "c", "h", "a", "r", " ", "0", ")">>))
        ELSE IF content.exc # NoException THEN unexpected_reply(content.exc)
        ELSE [kind |-> "result",
              asteroid_name |-> req.name,
              asteroid_id |-> req.id,
              analysis |-> content.val,
              model_used |-> payload.model]

InitAnalyze ==
    /\ pc = "unborn"
    /\ script = <<>>
    /\ recut = FALSE
    /\ pending = <<>>
    /\ chunks = 0
    /\ buffer = <<>>
    /\ emitted = <<>>
    /\ raised = NoException
    /\ openrouter_api_key \in ApiKeys
    /\ call = "idle"
    /\ request = NoRequest
    /\ json_data = NoPayload
    /\ response = NoResponse
    /\ reply = NoReply
    /\ calls = <<>>

\* analyze_composition up to its first await: the credential check, the model
\* selection, the prompts and the payload; in streaming mode it returns the
\* StreamingResponse around a new generator.
AnalyzeRequest ==
    /\ call = "idle"
    /\ \E req \in Requests :
          /\ request' = req
          /\ IF ~truthy(openrouter_api_key)
             THEN /\ reply' = HTTPException(500, <<"O", "p", "e", "n", "R", "o", "u", "t", "e", "r", " ", "A", "P", "I", " ", "k", "e", "y", " ", "i", "s", " ", "n", "o", "t", " ", "c", "o", "n", "f", "i", "g", "u", "r", "e", "d", ".">>)
                  /\ call' = "raised"
                  /\ UNCHANGED <<json_data, pc>>
             ELSE /\ json_data' = _prepare_request_payload(
                                      IF truthy(req.spectral_type) THEN ADVANCED_MODEL
                                      ELSE DEFAULT_MODEL,
                                      "system_prompt", build_composition_prompt(req),
                                      req.use_streaming)
                  /\ IF req.use_streaming
                     THEN /\ reply' = [kind |-> "StreamingResponse"]
                          /\ call' = "returned"
                          /\ pc' = "start"
                     ELSE /\ call' = "awaiting_upstream"
                          /\ UNCHANGED <<reply, pc>>
    /\ UNCHANGED <<script, recut, pending, chunks, buffer, emitted, raised>>
    /\ UNCHANGED <<openrouter_api_key, response>>
    /\ UNCHANGED calls

\* The buffered POST is answered: raise_for_status(), then the result or the
\* exception handlers.
UpstreamResponse ==
    /\ call = "awaiting_upstream"
    /\ \E status \in Statuses, text \in ResponseTexts :
          \E resp \in {[status |-> status, text |-> text]} :
             /\ response' = resp
             /\ IF ~is_success(status)
                THEN reply' = status_error_reply(resp) /\ call' = "raised"
                ELSE \E r \in {buffered_reply(request, json_data, resp)} :
                        /\ reply' = r
                        /\ call' = IF r.kind = "result" THEN "returned" ELSE "raised"
    /\ UNCHANGED stream_vars
    /\ UNCHANGED <<openrouter_api_key, request, json_data>>
    /\ UNCHANGED calls

\* The buffered POST fails in the transport (network error, timeout).
UpstreamFailure ==
    /\ call = "awaiting_upstream"
    /\ \E e \in TransportErrors : reply' = unexpected_reply(e)
    /\ call' = "raised"
    /\ UNCHANGED stream_vars
    /\ UNCHANGED <<openrouter_api_key, request, json_data, response>>
    /\ UNCHANGED calls

NextAnalyze ==
    \/ AnalyzeRequest
    \/ UpstreamResponse
    \/ UpstreamFailure

SpecAnalyze == InitAnalyze /\ [][NextAnalyze]_vars

(***************************************************************************)
(* What the caller sees                                                    *)
(***************************************************************************)
\* The events of the yielded blocks: the non-empty lines of their concatenation
\* (an event is one "data: ..." line followed by a blank line).
events(blocks) == SelectSeq(split(Concat(blocks)), LAMBDA l : l # <<>>)

\* The JSON payload of an event line.
event_data(ev) == json_loads(slice(ev, 7, Len(ev)))

\* ev is data: {"<key>": <value>} in the exact form json.dumps writes.
is_keyed_event(ev, key) ==
    /\ startswith(ev, <<"d", "a", "t", "a", ":", " ">>)
    /\ LET d == event_data(ev)
       IN  /\ d.ok
           /\ d.val.t = "obj"
           /\ Len(d.val.v) = 1
           /\ d.val.v[1][1] = key
           /\ ev = <<"d", "a", "t", "a", ":", " ">> \o json_dumps(d.val)

is_content_event(ev) == is_keyed_event(ev, <<"c", "o", "n", "t", "e", "n", "t">>)

is_error_event(ev) == is_keyed_event(ev, <<"e", "r", "r", "o", "r">>) /\ event_data(ev).val.v[1][2].t = "str"

\* The delta a content event carries.
content_of(ev) == event_data(ev).val.v[1][2]

count_done(evs) == Cardinality({i \in DOMAIN evs : evs[i] = DoneLine})

count_errors(evs) == Cardinality({i \in DOMAIN evs : is_error_event(evs[i])})

is_done(ev) == ev = DoneLine

\* The whole response body of the call.
body == Concat(script)

\* The call ended by a failure of the transport.
transport_failed == raised \in TransportErrors \/ raised.type = "ResponseNotRead"

\* What a call yields when the transport delivers bytes b as its only chunk and
\* then closes (lines 236-245 for one chunk).
single_fragment_blocks(b) ==
    IF strip(b) = <<>> THEN <<DoneEvent>>
    ELSE LET text == decode(b)
             r == _process_stream_chunk(text.text, <<>>)
             exc == IF text.exc # NoException THEN text.exc ELSE r.exc
         IN  IF exc # NoException
             THEN <<error_event(<<"U", "n", "e", "x", "p", "e", "c", "t", "e", "d", " ", "e", "r", "r", "o", "r", ":", " ">> \o exc.msg), DoneEvent>>
             ELSE (IF r.processed_data # <<>> THEN <<r.processed_data>> ELSE <<>>)
                  \o (IF ~endswith(strip(r.buffer), <<"[", "D", "O", "N", "E", "]">>) THEN <<DoneEvent>> ELSE <<>>)

\* The upstream lines that carry a content delta, each with that delta.
ContentLines ==
    { <<ContentFe, JStr(<<"F", "e">>)>>,
      <<ContentEAcute, JStr(<<EAcute>>)>>,
      <<ContentEscaped, JStr(<<"\"", "\\">>)>>,
      <<ContentTrue, JBool(TRUE)>>,
      <<ContentCRLF, JStr(<<"F", "e">>)>> }

\* The upstream lines that are valid JSON without the path choices[0].delta.content.
PathlessLines == {EmptyDelta, EmptyContent, NullDelta, NoChoices, EmptyChoices, NotAnObject}

(***************************************************************************)
(* Properties                                                              *)
(***************************************************************************)
\* C1: a call that ends without a transport failure has emitted exactly one
\* terminal event data: [DONE], whether or not the upstream sent the sentinel.
C1_ExactlyOneTerminal ==
    (pc = "closed" /\ ~transport_failed) => count_done(events(emitted)) = 1

\* C2: a terminal event is the last event of its call: nothing is emitted after it.
C2_TerminalIsLast ==
    LET evs == events(emitted)
    IN  \A i \in DOMAIN evs : is_done(evs[i]) => i = Len(evs)

\* C3: a newline-terminated content line delivered in two or more chunks, cut
\* anywhere, gives the events it gives when delivered as one chunk.
C3_FragmentationInvariant ==
    (/\ pc = "closed"
     /\ ~transport_failed
     /\ chunks >= 2
     /\ \E cl \in ContentLines : body = encode(body_of(<<cl[1]>>)))
    => events(emitted) = events(single_fragment_blocks(body))

\* C4: the two chunks of the example, then the close, yield exactly two events:
\* the content event carrying "Fe", then the terminal event.
C4_ExampleTwoEvents ==
    (pc = "closed" /\ raised = NoException /\ script = ExampleScript /\ ~recut)
    => events(emitted) = <<<<"d", "a", "t", "a", ":", " ", "{", "\"", "c", "o", "n", "t", "e", "n", "t", "\"", ":", " ", "\"", "F", "e", "\"", "}">>, DoneLine>>

\* C5: a first chunk that is one complete content line makes the generator
\* yield exactly one content event, which carries the delta of the line.
C5_SingleLineOneEvent ==
    \A cl \in ContentLines :
        (/\ pc = "streaming"
         /\ chunks = 1
         /\ pending = <<>>
         /\ script = <<encode(body_of(<<cl[1]>>))>>)
        => /\ Len(emitted) = 1
           /\ LET evs == events(emitted)
              IN  /\ Len(evs) = 1
                  /\ is_content_event(evs[1])
                  /\ json_dumps(content_of(evs[1])) = json_dumps(cl[2])
           /\ raised = NoException

C5_Witness ==
    /\ pc = "streaming"
    /\ chunks = 1
    /\ pending = <<>>
    /\ script = <<encode(body_of(<<ContentEAcute>>))>>
    /\ emitted # <<>>

\* C6: a line that is valid JSON without the path choices[0].delta.content gives
\* no event and no exception, and the line after it is processed: a body of such
\* a line and a content line, in one chunk, yields the content event only.
C6_PathlessLineSkipped ==
    \A l \in PathlessLines :
        (pc = "closed" /\ ~transport_failed /\ ~recut
            /\ script = <<encode(body_of(<<l, ContentFe>>))>>)
        => /\ raised = NoException
           /\ events(emitted) = <<<<"d", "a", "t", "a", ":", " ", "{", "\"", "c", "o", "n", "t", "e", "n", "t", "\"", ":", " ", "\"", "F", "e", "\"", "}">>, DoneLine>>

\* The chunk the transport delivers in a step that takes bytes from pending.
delivered ==
    IF pending' = Tail(pending) THEN Head(pending)
    ELSE SubSeq(Head(pending), 1, Len(Head(pending)) - Len(Head(pending')))

\* A complete data line whose payload json.loads rejects.
is_malformed(line) ==
    /\ startswith(line, <<"d", "a", "t", "a", ":">>)
    /\ strip(line) # DoneLine
    /\ strip(slice(line, 6, Len(line))) # <<>>
    /\ ~json_loads(strip(slice(line, 6, Len(line)))).ok

\* "\n".join(lines)
RECURSIVE join(_)
join(lines) ==
    IF Len(lines) = 1 THEN lines[1] ELSE lines[1] \o <<NL>> \o join(Tail(lines))

\* lines without its k-th line
without(lines, k) == SubSeq(lines, 1, k - 1) \o SubSeq(lines, k + 1, Len(lines))

\* The step ends as _process_stream_chunk result r says: with its exception,
\* or with its buffer and its block.
steps_as(r) ==
    IF r.exc # NoException
    THEN raised' = r.exc /\ pc' = "yield_done" /\ buffer' = buffer
    ELSE /\ raised' = raised
         /\ pc' = pc
         /\ buffer' = r.buffer
         /\ emitted' = IF r.processed_data # <<>> THEN Append(emitted, r.processed_data)
                       ELSE emitted

\* C7: a complete line of malformed JSON is dropped: the step that processes it
\* raises nothing for it, emits nothing for it, and leaves the buffer and the
\* events of the other lines exactly as if the line had not been in the input.
C7_MalformedLineDropped ==
    [][ (pc = "streaming" /\ pending' # pending)
        => \A chunk \in {delivered} : \A text \in {decode(chunk)} :
              (strip(chunk) # <<>> /\ text.exc = NoException)
              => \A lines \in {split(buffer \o text.text)} :
                    \A k \in 1..(Len(lines) - 1) :
                       is_malformed(lines[k])
                       => \A r \in {_process_stream_chunk(join(without(lines, k)), <<>>)} :
                             steps_as(r) ]_vars

C7_Witness ==
    /\ script = <<encode(body_of(<<Malformed, ContentFe>>))>>
    /\ pending = <<>>
    /\ pc = "streaming"
    /\ raised = NoException
    /\ events(emitted) = <<<<"d", "a", "t", "a", ":", " ", "{", "\"", "c", "o", "n", "t", "e", "n", "t", "\"", ":", " ", "\"", "F", "e", "\"", "}">>>>

\* C8: a call ended by a transport failure (a non-2xx status, a network error or
\* a timeout, before or after other events) has emitted exactly one error event
\* followed by exactly one terminal event, the only terminal event of the call.
C8_FailureCleanClose ==
    (pc \in {"closed", "crashed"} /\ transport_failed)
    => LET evs == events(emitted)
       IN  /\ Len(evs) >= 2
           /\ is_error_event(evs[Len(evs) - 1])
           /\ is_done(evs[Len(evs)])
           /\ count_errors(evs) = 1
           /\ count_done(evs) = 1

\* The wire form of a sequence of events: each followed by a blank line.
RECURSIVE frame(_)
frame(evs) == IF evs = <<>> THEN <<>> ELSE Head(evs) \o <<NL, NL>> \o frame(Tail(evs))

\* C9 (as stated): every yielded block is exactly one content event or exactly
\* the terminal event.
C9_OneEventPerBlock ==
    \A i \in DOMAIN emitted :
        \/ emitted[i] = DoneEvent
        \/ LET evs == events(<<emitted[i]>>)
           IN  Len(evs) = 1 /\ is_content_event(evs[1]) /\ emitted[i] = frame(evs)

\* C9 (amended): every yielded block is a non-empty run of whole events: either
\* content events, the last of which may be followed by the terminal event, or
\* the terminal event alone, or one error event alone.
C9_BlockForms ==
    \A i \in DOMAIN emitted :
        LET evs == events(<<emitted[i]>>)
        IN  /\ evs # <<>>
            /\ emitted[i] = frame(evs)
            /\ \/ Len(evs) = 1 /\ is_error_event(evs[1])
               \/ \A j \in DOMAIN evs :
                     \/ is_content_event(evs[j])
                     \/ is_done(evs[j]) /\ j = Len(evs)

C9_Witness ==
    \E i \in DOMAIN emitted :
        LET evs == events(<<emitted[i]>>)
        IN  Len(evs) = 2 /\ is_content_event(evs[1]) /\ is_done(evs[2])

\* Text b occurs in text s.
contains(s, b) ==
    \E i \in 1..(Len(s) - Len(b) + 1) : SubSeq(s, i, i + Len(b) - 1) = b

\* C10: in buffered mode a non-2xx upstream response with status s and body b
\* reaches the caller as an error with status code s whose detail contains b,
\* and not as the generic "An unexpected error occurred" failure.
C10_UpstreamStatusSurfaced ==
    (call = "raised" /\ response # NoResponse /\ ~is_success(response.status))
    => /\ reply.kind = "HTTPException"
       /\ reply.status_code = response.status
       /\ contains(reply.detail, response.text)
       /\ ~startswith(reply.detail, <<"A", "n", " ", "u", "n", "e", "x", "p", "e", "c", "t", "e", "d", " ", "e", "r", "r", "o", "r", " ", "o", "c", "c", "u", "r", "r", "e", "d">>)

C10_Witness ==
    /\ call = "raised"
    /\ response = [status |-> 429, text |-> <<"r", "a", "t", "e", " ", "l", "i", "m", "i", "t", "e", "d">>]
    /\ reply.kind = "HTTPException"
    /\ reply.status_code = 429

\* The value of a top-level key of the upstream's JSON answer (JNull if absent).
response_field(key) ==
    LET parsed == json_loads(response.text)
    IN  IF parsed.ok /\ parsed.val.t = "obj" THEN get(parsed.val, key, JNull).val ELSE JNull

\* choices[0].message.content of the upstream's JSON answer (JNull if absent).
response_content ==
    LET parsed == json_loads(response.text)
        content == message_content(parsed.val)
    IN  IF parsed.ok /\ content.exc = NoException THEN content.val ELSE JNull

\* C11: in buffered mode an upstream 200 answer whose choices[0].message.content
\* is c and whose model is X makes analyze_composition return the record with
\* analysis = c, model_used = X and the name and id of the request.
C11_BufferedResult ==
    (/\ call \in {"returned", "raised"}
     /\ response.status = 200
     /\ response_content.t = "str"
     /\ response_content.v # <<>>
     /\ response_field(<<"m", "o", "d", "e", "l">>).t = "str")
    => /\ reply.kind = "result"
       /\ reply.analysis = response_content
       /\ reply.model_used = response_field(<<"m", "o", "d", "e", "l">>).v
       /\ reply.asteroid_name = request.name
       /\ reply.asteroid_id = request.id

\* C12: when the credential is not configured (unset or empty), every analysis
\* call, streaming or buffered, ends with the configuration error, and nothing
\* is done for it before: no payload is built, no generator is created and no
\* request reaches the upstream.
C12_MissingKeyFailsFirst ==
    (openrouter_api_key \in {JNull, JStr(<<>>)})
    => /\ call \in {"idle", "raised"}
       /\ call = "raised"
          => reply = HTTPException(500, <<"O", "p", "e", "n", "R", "o", "u", "t", "e", "r", " ", "A", "P", "I", " ", "k", "e", "y", " ", "i", "s", " ", "n", "o", "t", " ", "c", "o", "n", "f", "i", "g", "u", "r", "e", "d", ".">>)
       /\ json_data = NoPayload
       /\ response = NoResponse
       /\ pc = "unborn"

C12_Witness ==
    /\ openrouter_api_key = JStr(<<>>)
    /\ call = "raised"
    /\ request.use_streaming
    /\ reply.kind = "HTTPException"

\* C13: the primary model of the payload is the advanced model exactly when the
\* request gives a spectral_type (any value, the empty string included) and the
\* default model otherwise, whatever the other fields of the request; the model
\* list is always <<primary, fallback>>.
C13_ModelSelection ==
    (json_data # NoPayload)
    => /\ json_data.model = IF request.spectral_type # JNull THEN ADVANCED_MODEL
                            ELSE DEFAULT_MODEL
       /\ json_data.models = <<json_data.model, FALLBACK_MODEL>>

\* The bytes of the response body that the call has taken from the upstream.
consumed == SubSeq(body, 1, Len(body) - Len(Concat(pending)))

\* The lines that a text completes: those terminated by a newline.
completed_lines(text) ==
    LET lines == split(text) IN SubSeq(lines, 1, Len(lines) - 1)

\* What the lines give when each is processed, in their order.
line_events(lines) == Concat([i \in 1..Len(lines) |-> process_line(lines[i]).out])

\* C14: while a call streams, the events it has emitted are the events of the
\* lines completed by the fragments taken so far, in the order of completion:
\* none reordered, none duplicated, none held back past the fragment that
\* completed its line. (Stated for input without the sentinel and without a
\* line that raises.)
C14_EmittedInCompletionOrder ==
    (pc = "streaming" /\ raised = NoException)
    => \A text \in {decode(consumed)} :
          text.exc = NoException
          => \A lines \in {completed_lines(text.text)} :
                (\A i \in DOMAIN lines :
                    \A r \in {process_line(lines[i])} : r.exc = NoException /\ ~r.stop)
                => events(emitted) = events(<<line_events(lines)>>)

\* The call has emitted the terminal event for a sentinel line of the upstream.
sentinel_processed ==
    pc = "streaming" /\ raised = NoException /\ count_done(events(emitted)) >= 1

\* C15: once a complete sentinel line has been processed, the call takes no
\* further fragment from the upstream and emits nothing more for later lines.
C15_StopsAtSentinel ==
    [][ sentinel_processed => (pending' = pending /\ pc' # "streaming") ]_vars

\* The text after the last newline of s (s itself if it has none).
after_last_newline(s) ==
    LET P == {i \in 1..Len(s) : s[i] = NL}
    IN  IF P = {} THEN s
        ELSE SubSeq(s, (CHOOSE p \in P : \A q \in P : q <= p) + 1, Len(s))

\* C16: after every call of _process_stream_chunk that returns, the carry-over
\* buffer is exactly the text after the last newline of the previous buffer
\* followed by the fragment, and so holds no newline: no complete line is kept.
C16_BufferIsLastPartialLine ==
    [][ (pc = "streaming" /\ pending' # pending /\ pc' = "streaming"
            /\ raised' = NoException)
        => \A chunk \in {delivered} :
              (\E i \in DOMAIN chunk : chunk[i] \notin Whitespace)
              => \A text \in {decode(chunk)} :
                    /\ buffer' = after_last_newline(buffer \o text.text)
                    /\ \A i \in DOMAIN buffer' : buffer'[i] # NL ]_vars

C16_Witness ==
    /\ pc = "streaming"
    /\ raised = NoException
    /\ buffer # <<>>
    /\ emitted # <<>>
    /\ chunks >= 2

\* A step in which the caller's disconnection reaches the generator: it ends
\* the generator, or an except clause takes it as the exception of the call.
cancel_arrives ==
    /\ pc # "cancelled"
    /\ pc' = "cancelled" \/ (raised' # raised /\ raised' \in Cancellations)

\* C18: when the caller disconnects, at any point of the call, the call takes
\* no further fragment from the upstream and emits no further event (no error
\* event and no terminal event for the cancellation), and the connection to the
\* upstream is released.
C18_CancelEndsQuietly ==
    [][ (cancel_arrives \/ pc = "cancelled")
        => /\ pc' = "cancelled"
           /\ emitted' = emitted
           /\ pending' = pending
           /\ ~connection_open' ]_vars

C18_Witness ==
    /\ pc = "cancelled"
    /\ pending # <<>>
    /\ emitted # <<>>
    /\ raised = NoException

\* The text, trimmed, ends with [DONE].
ends_with_sentinel(s) ==
    \E j \in 6..Len(s) :
       /\ SubSeq(s, j - 5, j) = <<"[", "D", "O", "N", "E", "]">>
       /\ \A i \in (j + 1)..Len(s) : s[i] \in Whitespace

\* C19: at the end of the upstream's input the carry-over buffer is discarded
\* without being parsed: the closing step emits no content event, whatever the
\* buffer holds, and it emits the terminal event unless the trimmed buffer ends
\* with [DONE], in which case it emits nothing.
C19_ResidualBufferDiscarded ==
    [][ (pc = "streaming" /\ pc' = "closed")
        => emitted' = IF ends_with_sentinel(buffer) THEN emitted
                      ELSE Append(emitted, DoneEvent) ]_vars

C19_Witness ==
    /\ pc = "closed"
    /\ raised = NoException
    /\ buffer = DoneLine
    /\ emitted = <<>>

\* C20: a fragment of whitespace only is skipped: the buffer is left as it was,
\* no line is completed and nothing is emitted for it.
C20_WhitespaceFragmentSkipped ==
    [][ (pc = "streaming" /\ pending' # pending /\ pc' = "streaming")
        => \A chunk \in {delivered} :
              (\A i \in DOMAIN chunk : chunk[i] \in Whitespace)
              => /\ buffer' = buffer
                 /\ emitted' = emitted
                 /\ raised' = raised ]_vars

C20_Witness ==
    /\ pc = "streaming"
    /\ pending = <<>>
    /\ buffer \o <<NL>> = decode(body).text
    /\ emitted = <<>>

\* C17: of concurrent streaming calls whose fragments arrive interleaved in any
\* order, each emits what it emits when it runs alone on its own fragments.
C17_CallsAreIndependent ==
    \A c \in DOMAIN calls :
        calls[c].pc # "start"
        => run_alone(calls[c]).emitted = run_alone(opened(calls[c].script)).emitted

C17_Witness ==
    /\ calls # <<>>
    /\ \A c \in DOMAIN calls : calls[c].pc = "streaming" /\ calls[c].buffer # <<>>
    /\ calls[1].buffer # calls[2].buffer
    /\ calls[2].emitted # <<>>

====
